---- MODULE Spec2Model ----
(***************************************************************************)
(* Model of the two browser scripts of the Schoolara admin template:       *)
(*   static/js/sidebar-nav.js     sidebar highlight pass and toggle click  *)
(*   static/js/theme-settings.js  theme panel, toggles, swatches, saves    *)
(* The two scripts share no state; each has its own specification          *)
(* (SpecNav, SpecTheme) over the common variables, the other script's      *)
(* variables staying at their initial value.                               *)
(*                                                                         *)
(* Strings are sequences of one-character strings, so that equality,       *)
(* startsWith and the regular-expression replace are computed character    *)
(* by character.  The tokens "http:" and "https:" stand for the scheme.    *)
(*                                                                         *)
(* The rendered menu: every li holds its own link as its first a, and a    *)
(* nested ul is a ul.mm-collapse (metisMenu's markup); ul.vertical-nav-menu*)
(* itself is not.  A submenu is named by the li that owns it.              *)
(*                                                                         *)
(* A save request in flight is counted, not stored: its continuation       *)
(* reads the setting and the value only to log them.                       *)
(***************************************************************************)
EXTENDS Integers, Sequences, FiniteSets

VARIABLES
    \* ---- sidebar-nav.js
    menu,        \* the rendered menu: [n, parent, href]; li i holds link i and, when it has children, a ul.mm-collapse
    currentPath, \* window.location.pathname
    linkActive,  \* links (a) carrying mm-active
    liActive,    \* list items (li) carrying mm-active
    ulShow,      \* submenus (named by their owning li) carrying mm-show
    matched,     \* history: the entries whose own href matched in the last highlight pass
    navPhase,    \* "loading" before DOMContentLoaded, "highlighted" right after a pass, "clicked" after a toggle click
    passes,      \* number of highlight passes run so far
    lastEntry,   \* history: the entry whose link was clicked last, 0 before any click
    priorMarks   \* history: <<linkActive, liActive, ulShow>> as the page was rendered

navVars ==
    <<menu, currentPath, linkActive, liActive, ulShow, matched, navPhase, passes, lastEntry, priorMarks>>

VARIABLES
    \* ---- theme-settings.js
    present,      \* which of the looked-up elements exist on the page
    toastr,       \* is the toastr notifier loaded (typeof toastr !== 'undefined')
    buttons,      \* the rendered .switch-theme-class buttons
    savedClass,   \* window.THEME_CONFIG?.headerClass || '' and ...?.sidebarClass || ''
    panel,        \* .ui-theme-settings: [open, transform, right]
    checked,      \* checkbox.checked of every layout toggle
    indicator,    \* the switch-on / switch-off classes of every toggle's .switch-animate
    body,         \* document.body.classList
    swActive,     \* per swatch group, the swatches carrying 'active'
    targetCls,    \* per swatch group, the classList of .app-header / .app-sidebar
    btnActive,    \* the theme buttons carrying 'active'
    nSent,        \* fetch calls issued so far
    nCompleted,   \* fetch calls whose promise chain has run; nSent - nCompleted are in flight
    nToasts,      \* toastr notifications shown
    lastSent,     \* the save requests issued by the most recent click handler
    nClicks,      \* history: clicks on swatches, theme buttons and toggles
    nRestores,    \* history: clicks on restore-defaults
    lastChosen,   \* history: per exclusive-choice group, the option clicked last (0: none since load or restore)
    lastClick     \* history: the most recent click: [kind, group, option, bodyBefore, openBefore]

viewVars == <<panel, checked, indicator, body, swActive, targetCls, btnActive>>
saveVars == <<nSent, nCompleted, nToasts, lastSent>>
histVars == <<nClicks, nRestores, lastChosen, lastClick>>
themeVars == <<present, toastr, buttons, savedClass, viewVars, saveVars, histVars>>

vars == <<navVars, themeVars>>

(***************************************************************************)
(* Bounds                                                                  *)
(***************************************************************************)
MaxNodes == 3    \* list items of a generated menu
MaxPasses == 2   \* highlight passes in one behaviour
MaxClicks == 2   \* clicks that save a preference in one behaviour

(***************************************************************************)
(* Strings                                                                 *)
(***************************************************************************)
Slash == <<"/">>
Hash == <<"#">>
Empty == <<>>

\* String.prototype.startsWith
StartsWith(s, p) == Len(p) <= Len(s) /\ SubSeq(s, 1, Len(p)) = p

\* length of the maximal run of non-"/" characters of s starting at position k
RECURSIVE HostRun(_, _)
HostRun(s, k) ==
    IF k > Len(s) \/ s[k] = "/" THEN 0 ELSE 1 + HostRun(s, k + 1)

\* does /^https?:\/\/[^\/]+/ match at the start of s
HasOrigin(s) ==
    /\ Len(s) >= 4
    /\ s[1] \in {"http:", "https:"}
    /\ s[2] = "/"
    /\ s[3] = "/"
    /\ s[4] # "/"

\* itemHref.replace(/^https?:\/\/[^\/]+/, '')
StripOrigin(s) ==
    IF HasOrigin(s) THEN SubSeq(s, 4 + HostRun(s, 4), Len(s)) ELSE s

(***************************************************************************)
(* The menus and paths the pass is run on                                  *)
(***************************************************************************)
NavHrefs == { Empty, Hash, Slash, <<"/", "a">>, <<"/", "a", "/", "b">> }

NavPaths == { Slash, <<"/", "a">>, <<"/", "a", "/", "b">>, <<"/", "a", "b">> }

\* parent[i] = 0: li i is a child of ul.vertical-nav-menu; otherwise li i sits
\* in the ul.mm-collapse of li parent[i]
ParentMaps(n) == { p \in [1..n -> 0..(n - 1)] : \A i \in 1..n : p[i] < i }

GeneratedMenus ==
    { [n |-> MaxNodes, parent |-> p, href |-> h] :
        p \in ParentMaps(MaxNodes), h \in [1..MaxNodes -> NavHrefs] }

DashboardHref == <<"/", "d", "a", "s", "h", "b", "o", "a", "r", "d">>
ReportsHref == DashboardHref \o <<"/", "r", "e", "p", "o", "r", "t", "s">>
SettingsHref == <<"/", "s", "e", "t", "t", "i", "n", "g", "s">>

\* the flat menu ["/", "/dashboard", "/dashboard/reports", "/settings"]
DashboardMenu ==
    [n |-> 4,
     parent |-> [i \in 1..4 |-> 0],
     href |-> <<Slash, DashboardHref, ReportsHref, SettingsHref>>]

\* a three-level menu: 1 ("#") holds 2 ("#"), which holds 3 ("/a"); 4 ("#")
\* is a top-level toggle
NestedMenu ==
    [n |-> 4,
     parent |-> <<0, 1, 2, 0>>,
     href |-> <<Hash, Hash, <<"/", "a">>, Hash>>]

\* a flat menu whose links are rendered with absolute URLs: the site root
\* without and with a trailing slash, "/a" under the origin, the relative
\* "/a", and a toggle
Origin == <<"https:", "/", "/", "h">>
AbsoluteMenu ==
    [n |-> 5,
     parent |-> [i \in 1..5 |-> 0],
     href |-> <<Origin, Origin \o Slash, Origin \o <<"/", "a">>, <<"/", "a">>, Hash>>]

Nodes == 1..menu.n
Submenus == { i \in Nodes : \E c \in Nodes : menu.parent[c] = i }
TopLevel == { i \in Nodes : menu.parent[i] = 0 }

RECURSIVE Ancestors(_)
Ancestors(i) ==
    IF menu.parent[i] = 0 THEN {}
    ELSE {menu.parent[i]} \cup Ancestors(menu.parent[i])

(***************************************************************************)
(* sidebar-nav.js: the DOMContentLoaded handler                            *)
(***************************************************************************)
\* line 45: if (!itemHref || itemHref === '#') return;
Navigable(h) == h # Empty /\ h # Hash

\* lines 48-53
MatchesNoRootExemption(h, path) ==
    LET itemPath == StripOrigin(h)
    IN  path = itemPath \/ StartsWith(path, itemPath)
Matches(h, path) ==
    LET itemPath == StripOrigin(h)
    IN  \/ path = itemPath
        \/ (itemPath # Slash /\ StartsWith(path, itemPath))

MatchedEntries == { i \in Nodes : Navigable(menu.href[i]) /\ Matches(menu.href[i], currentPath) }

\* lines 26-29: every ul.mm-collapse loses mm-show
ResetShowKept(show) == show
ResetShowToggled(show) == Submenus \ show
ResetShow(show) == {}

\* lines 32-37: every link, and the li that holds it, loses mm-active
ResetActiveKept(active) == active
ResetActive(active) == {}

\* lines 65-80: the walk from a matched entry: its li's ul, when that is a
\* ul.mm-collapse, and that ul's parent li
WalkOneLevel(m) == { menu.parent[i] : i \in { j \in m : menu.parent[j] # 0 } }
WalkUp(m) == WalkOneLevel(m)

HighlightPass ==
    /\ passes < MaxPasses
    /\ LET m == MatchedEntries
           up == WalkUp(m)
       IN  /\ matched' = m
           /\ linkActive' = ResetActive(linkActive) \cup m \cup up
           /\ liActive' = ResetActive(liActive) \cup m \cup up
           /\ ulShow' = ResetShow(ulShow) \cup up
    /\ navPhase' = "highlighted"
    /\ passes' = passes + 1
    /\ UNCHANGED <<menu, currentPath, lastEntry, priorMarks>>
    /\ UNCHANGED themeVars

(***************************************************************************)
(* sidebar-nav.js: click on a top-level a[href="#"]                        *)
(***************************************************************************)
\* lines 91-100: the other top-level li whose ul carries mm-show
OtherOpenAnyLevel(i) == ulShow \ {i}
OtherOpen(i) == { s \in TopLevel \cap ulShow : s # i }

MenuToggleClick(i) ==
    /\ navPhase # "loading"
    /\ i \in TopLevel
    /\ menu.href[i] = Hash
    /\ LET closing == IF i \in linkActive THEN {} ELSE OtherOpen(i)
       IN  /\ ulShow' = ulShow \ closing
           /\ linkActive' = linkActive \ closing
           /\ liActive' = liActive \ closing
    /\ navPhase' = "clicked"
    /\ lastEntry' = i
    /\ UNCHANGED <<menu, currentPath, matched, passes, priorMarks>>
    /\ UNCHANGED themeVars

(***************************************************************************)
(* theme-settings.js: class names, data-class values and setting names     *)
(* are strings whose characters are grouped into words; "-", "_" and " "   *)
(* are characters of their own.                                            *)
(***************************************************************************)
BodyTabs == <<"body", "-", "tabs">>
AppTheme == <<"app", "-", "theme">>
BodyTabsShadow == BodyTabs \o <<"-", "shadow">>
BodyTabsLine == BodyTabs \o <<"-", "line">>
BodyTabsRounded == BodyTabs \o <<"-", "rounded">>
AppThemeWhite == AppTheme \o <<"-", "white">>
AppThemeGray == AppTheme \o <<"-", "gray">>

HeaderClassKey == <<"header", "_", "class">>
SidebarClassKey == <<"sidebar", "_", "class">>
PageTabsStyleKey == <<"page", "_", "tabs", "_", "style">>
ThemeColorKey == <<"theme", "_", "color">>

\* String.prototype.includes
Includes(s, sub) ==
    \E k \in 0..(Len(s) - Len(sub)) : SubSeq(s, k + 1, k + Len(sub)) = sub

\* position of the first occurrence of character c in s, 0 when there is none
RECURSIVE IndexOf(_, _, _)
IndexOf(s, c, k) ==
    IF k > Len(s) THEN 0 ELSE IF s[k] = c THEN k ELSE IndexOf(s, c, k + 1)

\* s.split(' '), as the sequence of the pieces
RECURSIVE Split(_)
Split(s) ==
    LET k == IndexOf(s, " ", 1)
    IN  IF k = 0 THEN <<s>>
        ELSE <<SubSeq(s, 1, k - 1)>> \o Split(SubSeq(s, k + 1, Len(s)))

SplitSet(s) == { Split(s)[k] : k \in 1..Len(Split(s)) }

\* s.replace('-', '_'): a string pattern replaces the first occurrence only
ReplaceHyphen(s) ==
    LET k == IndexOf(s, "-", 1)
    IN  IF k = 0 THEN s ELSE [s EXCEPT ![k] = "_"]

\* Boolean.prototype.toString
BoolString(b) == IF b THEN <<"true">> ELSE <<"false">>

(***************************************************************************)
(* The rendered theme panel                                                *)
(***************************************************************************)
AllElements == {"TooltipDemo", "ui-theme-settings", "app-header", "app-sidebar", "restoreMainDefaults"}

\* .switch-container-class: data-class of every layout toggle
ToggleClass ==
    << <<"fixed", "-", "header">>,
       <<"fixed", "-", "sidebar">>,
       <<"closed", "-", "sidebar", "-", "mobile">> >>
Toggles == 1..Len(ToggleClass)

SwatchGroups == {"header", "sidebar"}

\* .switch-header-cs-class / .switch-sidebar-cs-class: data-class of every
\* swatch; the first one is the restore-default swatch
SwatchClass(g) ==
    IF g = "header"
    THEN << Empty,
            <<"bg", "-", "primary", " ", "header", "-", "text", "-", "light">>,
            <<"bg", "-", "dark", " ", "header", "-", "text", "-", "light">> >>
    ELSE << Empty,
            <<"bg", "-", "royal", " ", "sidebar", "-", "text", "-", "light">> >>
Swatches(g) == 1..Len(SwatchClass(g))

\* the element a swatch group styles, and the class it always carries
TargetOf(g) == IF g = "header" THEN "app-header" ELSE "app-sidebar"
BaseClass(g) == IF g = "header" THEN <<"app", "-", "header">> ELSE <<"app", "-", "sidebar">>
SettingOf(g) == IF g = "header" THEN HeaderClassKey ELSE SidebarClassKey

\* .switch-theme-class: data-class of every button that can be rendered
ButtonClass == <<BodyTabsShadow, BodyTabsLine, AppThemeWhite, AppThemeGray, BodyTabsRounded>>
StandardButtons == 1..4
AllButtons == 1..Len(ButtonClass)

Request(setting, value) == [setting |-> setting, value |-> value]

\* the last click: what was clicked, the body and the panel as the handler
\* found them, the view as it stood when the handler called
\* saveThemePreference (<<>> when it made no call), and whether the handler
\* ended in an uncaught TypeError
Click(kind, group, option) ==
    [kind |-> kind, group |-> group, option |-> option, bodyBefore |-> body,
     openBefore |-> panel.open, atSave |-> <<>>, threw |-> FALSE]
NoClick ==
    [kind |-> "none", group |-> "none", option |-> 0, bodyBefore |-> {},
     openBefore |-> FALSE, atSave |-> <<>>, threw |-> FALSE]

\* lines 178, 225-228, 275-278, 308, 323, 349-350: the call of
\* saveThemePreference is the last statement of its handler
ViewAtSaveBeforeMutations(before, after) == before
ViewAtSave(before, after) == after

(***************************************************************************)
(* theme-settings.js: saveThemePreference and its promise chain            *)
(***************************************************************************)
Outcomes == {"success", "appError", "networkError"}

\* lines 29-40: fetch is called; the continuation runs later
Issue(reqs) ==
    /\ nSent' = nSent + Len(reqs)
    /\ lastSent' = reqs
    /\ UNCHANGED <<nCompleted, nToasts>>

\* lines 47, 54, 63: a notification is shown when toastr is defined
NotificationsUnguarded(outcome) == 1
Notifications(outcome) == IF toastr THEN 1 ELSE 0

\* lines 41-66: the continuation of one request in flight
SaveCompletes(outcome) ==
    /\ nCompleted < nSent
    /\ nCompleted' = nCompleted + 1
    /\ nToasts' = nToasts + Notifications(outcome)
    /\ UNCHANGED <<nSent, lastSent>>
    /\ UNCHANGED <<present, toastr, buttons, savedClass, viewVars, histVars>>
    /\ UNCHANGED navVars

(***************************************************************************)
(* theme-settings.js: the settings panel                                   *)
(***************************************************************************)
PanelClosed == [open |-> FALSE, transform |-> "", right |-> ""]
PanelOpened == [open |-> TRUE, transform |-> "translate(0)", right |-> "0"]

\* line 82: the handlers are attached only when both elements exist
PanelWired == {"TooltipDemo", "ui-theme-settings"} \subseteq present

\* lines 92-107
ToggleHandlerKeepsInline(p) ==
    IF p.open THEN [p EXCEPT !.open = FALSE] ELSE PanelOpened
ToggleHandler(p) ==
    IF p.open
    THEN [p EXCEPT !.open = FALSE, !.transform = "", !.right = ""]
    ELSE [p EXCEPT !.open = TRUE, !.transform = "translate(0)", !.right = "0"]

\* lines 118-128
DocumentHandler(p, inPanel, inButton) ==
    IF ~inPanel /\ ~inButton /\ p.open
    THEN [p EXCEPT !.open = FALSE, !.transform = "", !.right = ""]
    ELSE p

\* lines 85-115: the button's handler; stopPropagation (line 87) keeps the
\* click from the document's handler
SettingsButtonClick ==
    /\ PanelWired
    /\ panel' = ToggleHandler(panel)
    /\ lastClick' = Click("settings", "none", 0)
    /\ UNCHANGED <<checked, indicator, body, swActive, targetCls, btnActive>>
    /\ UNCHANGED <<present, toastr, buttons, savedClass, saveVars, nClicks, nRestores, lastChosen>>
    /\ UNCHANGED navVars

\* a click that reaches the document: where \in {"page", "panel"} is an
\* element outside the panel and the button, or an element of the panel
\* with no handler of its own
DocumentClick(where) ==
    /\ PanelWired
    /\ panel' = DocumentHandler(panel, where = "panel", FALSE)
    /\ lastClick' = Click(where, "none", 0)
    /\ UNCHANGED <<checked, indicator, body, swActive, targetCls, btnActive>>
    /\ UNCHANGED <<present, toastr, buttons, savedClass, saveVars, nClicks, nRestores, lastChosen>>
    /\ UNCHANGED navVars

(***************************************************************************)
(* theme-settings.js: layout toggles                                       *)
(***************************************************************************)
\* lines 150-156 and 167-175
IndicatorInverted(state) == IF state THEN {"switch-off"} ELSE {"switch-on"}
IndicatorFor(state) == IF state THEN {"switch-on"} ELSE {"switch-off"}

\* lines 158-179
ToggleClick(t) ==
    /\ nClicks + nRestores < MaxClicks
    /\ LET newState == ~checked[t]
       IN  /\ checked' = [checked EXCEPT ![t] = newState]
           /\ indicator' = [indicator EXCEPT ![t] = IndicatorFor(newState)]
           /\ body' = IF newState THEN body \cup {ToggleClass[t]} ELSE body \ {ToggleClass[t]}
           /\ Issue(<<Request(ReplaceHyphen(ToggleClass[t]), BoolString(newState))>>)
    /\ nClicks' = nClicks + 1
    /\ UNCHANGED <<panel, swActive, targetCls, btnActive>>
    /\ lastClick' = [Click("toggle", "none", t) EXCEPT !.atSave = ViewAtSave(viewVars, viewVars')]
    /\ UNCHANGED <<present, toastr, buttons, savedClass, nRestores, lastChosen>>
    /\ UNCHANGED navVars

(***************************************************************************)
(* theme-settings.js: header and sidebar colour swatches                   *)
(***************************************************************************)
\* lines 193-200 / 243-250: the swatches marked active on load
PreMarkedBySubstring(g, saved) == { i \in Swatches(g) : Includes(saved, SwatchClass(g)[i]) }
PreMarked(g, saved) == { i \in Swatches(g) : SwatchClass(g)[i] = saved }

\* lines 209-212 / 259-262
SwatchActiveKept(active, o) == active \cup {o}
SwatchActiveAfter(active, o) == {o}

\* lines 215-220 / 265-270: the classes named by any swatch of the group
GroupClasses(g) ==
    UNION { SplitSet(SwatchClass(g)[i]) : i \in { j \in Swatches(g) : SwatchClass(g)[j] # Empty } }

\* lines 215-224 / 265-274
SwatchClassesAfter(g, classes, newClass) ==
    (classes \ GroupClasses(g)) \cup (IF newClass # Empty THEN SplitSet(newClass) ELSE {})

\* lines 223-229 / 273-279
SwatchRequestsUnlessEmpty(g, newClass) ==
    IF newClass # Empty THEN <<Request(SettingOf(g), newClass)>> ELSE <<>>
SwatchRequests(g, newClass) ==
    IF newClass # Empty
    THEN <<Request(SettingOf(g), newClass)>>
    ELSE <<Request(SettingOf(g), Empty)>>

\* lines 218 / 268: appHeader.classList is read as soon as a swatch names a
\* class; a null appHeader makes the handler throw there
SwatchThrows(g) == TargetOf(g) \notin present /\ GroupClasses(g) # {}

\* lines 203-230 / 253-280
SwatchClick(g, o) ==
    /\ nClicks + nRestores < MaxClicks
    /\ LET newClass == SwatchClass(g)[o]
       IN  /\ swActive' = [swActive EXCEPT ![g] = SwatchActiveAfter(swActive[g], o)]
           /\ IF SwatchThrows(g)
              THEN /\ UNCHANGED targetCls
                   /\ Issue(<<>>)
              ELSE /\ targetCls' = [targetCls EXCEPT ![g] = SwatchClassesAfter(g, targetCls[g], newClass)]
                   /\ Issue(SwatchRequests(g, newClass))
    /\ nClicks' = nClicks + 1
    /\ lastChosen' = [lastChosen EXCEPT ![g] = o]
    /\ UNCHANGED <<panel, checked, indicator, body, btnActive>>
    /\ lastClick' = [Click("swatch", g, o) EXCEPT
                        !.atSave = IF SwatchThrows(g) THEN <<>> ELSE ViewAtSave(viewVars, viewVars'),
                        !.threw = SwatchThrows(g)]
    /\ UNCHANGED <<present, toastr, buttons, savedClass, nRestores>>
    /\ UNCHANGED navVars

(***************************************************************************)
(* theme-settings.js: page-tabs and theme-colour buttons                   *)
(***************************************************************************)
\* lines 296 and 311: the family a button belongs to
FamilyOf(b) ==
    IF Includes(ButtonClass[b], BodyTabs) THEN "tabs"
    ELSE IF Includes(ButtonClass[b], AppTheme) THEN "theme"
    ELSE "none"

FamilyKey(f) == IF f = "tabs" THEN BodyTabs ELSE AppTheme
FamilySetting(f) == IF f = "tabs" THEN PageTabsStyleKey ELSE ThemeColorKey

\* lines 297 and 312: the classes the handler removes from the body
FamilyRemoved(f) ==
    IF f = "tabs" THEN {BodyTabsShadow, BodyTabsLine} ELSE {AppThemeWhite, AppThemeGray}

\* lines 301-306 / 316-321
ButtonActiveAfter(active, b) ==
    (active \ { x \in buttons : Includes(ButtonClass[x], FamilyKey(FamilyOf(b))) }) \cup {b}

\* lines 290-325
ButtonClick(b) ==
    /\ nClicks + nRestores < MaxClicks
    /\ b \in buttons
    /\ FamilyOf(b) # "none"
    /\ body' = (body \ FamilyRemoved(FamilyOf(b))) \cup {ButtonClass[b]}
    /\ btnActive' = ButtonActiveAfter(btnActive, b)
    /\ Issue(<<Request(FamilySetting(FamilyOf(b)), ButtonClass[b])>>)
    /\ nClicks' = nClicks + 1
    /\ lastChosen' = [lastChosen EXCEPT ![FamilyOf(b)] = b]
    /\ UNCHANGED <<panel, checked, indicator, swActive, targetCls>>
    /\ lastClick' = [Click("button", FamilyOf(b), b) EXCEPT !.atSave = ViewAtSave(viewVars, viewVars')]
    /\ UNCHANGED <<present, toastr, buttons, savedClass, nRestores>>
    /\ UNCHANGED navVars

\* lines 345-346
RestoreBodyKeepsGray(classes) ==
    (classes \ {BodyTabsLine}) \cup {BodyTabsShadow, AppThemeWhite}
RestoreBodyOnlyDefaults(classes) == {BodyTabsShadow, AppThemeWhite}
RestoreBody(classes) ==
    (classes \ {BodyTabsLine, AppThemeGray}) \cup {BodyTabsShadow, AppThemeWhite}

\* lines 331-351
RestoreClick ==
    /\ nClicks + nRestores < MaxClicks
    /\ "restoreMainDefaults" \in present
    /\ btnActive' = { b \in buttons : ButtonClass[b] \in {BodyTabsShadow, AppThemeWhite} }
    /\ body' = RestoreBody(body)
    /\ Issue(<<Request(PageTabsStyleKey, BodyTabsShadow), Request(ThemeColorKey, AppThemeWhite)>>)
    /\ nRestores' = nRestores + 1
    /\ lastChosen' = [lastChosen EXCEPT !["tabs"] = 0, !["theme"] = 0]
    /\ UNCHANGED <<panel, checked, indicator, swActive, targetCls>>
    /\ lastClick' = [Click("restore", "none", 0) EXCEPT !.atSave = ViewAtSave(viewVars, viewVars')]
    /\ UNCHANGED <<present, toastr, buttons, savedClass, nClicks>>
    /\ UNCHANGED navVars

(***************************************************************************)
(* Specifications                                                          *)
(***************************************************************************)
ChoiceGroups == {"header", "sidebar", "tabs", "theme"}

\* the sidebar script's variables while only the theme script is observed
NavIdle ==
    /\ menu = DashboardMenu
    /\ currentPath = Slash
    /\ linkActive = {}
    /\ liActive = {}
    /\ ulShow = {}
    /\ matched = {}
    /\ navPhase = "loading"
    /\ passes = 0
    /\ lastEntry = 0
    /\ priorMarks = <<linkActive, liActive, ulShow>>

\* the page as rendered by the server, after initThemeSettings has run
\* (lines 70-355): the toggles mirror the body (lines 148-156), the swatch
\* equal to the injected saved class is pre-marked (lines 191-200, 241-250).
\* The server renders either the default theme or a customised one (second
\* swatch of each group, line tabs, gray theme, first toggle on), and
\* window.THEME_CONFIG is not injected, carries the rendered classes, or
\* carries a class no swatch has (the first word of the second swatch's).
InitTheme ==
    /\ present = AllElements
    /\ toastr \in BOOLEAN
    /\ buttons \in {StandardButtons, AllButtons}
    /\ panel = PanelClosed
    /\ \E custom \in BOOLEAN, injected \in {"none", "saved", "other"} :
          /\ body = IF custom
                    THEN {BodyTabsLine, AppThemeGray, ToggleClass[1]}
                    ELSE {BodyTabsShadow, AppThemeWhite}
          /\ targetCls = [g \in SwatchGroups |->
                {BaseClass(g)} \cup (IF custom THEN SplitSet(SwatchClass(g)[2]) ELSE {})]
          /\ savedClass = [g \in SwatchGroups |->
                IF injected = "saved" /\ custom THEN SwatchClass(g)[2]
                ELSE IF injected = "other" THEN Split(SwatchClass(g)[2])[1]
                ELSE Empty]
    /\ swActive = [g \in SwatchGroups |-> PreMarked(g, savedClass[g])]
    /\ checked = [t \in Toggles |-> ToggleClass[t] \in body]
    /\ indicator = [t \in Toggles |-> IndicatorFor(ToggleClass[t] \in body)]
    /\ btnActive = { b \in buttons : ButtonClass[b] \in body }
    /\ nSent = 0
    /\ nCompleted = 0
    /\ nToasts = 0
    /\ lastSent = <<>>
    /\ nClicks = 0
    /\ nRestores = 0
    /\ lastChosen = [g \in ChoiceGroups |-> 0]
    /\ lastClick = NoClick
    /\ NavIdle

\* the theme script's variables while only the sidebar script is observed
ThemeIdle ==
    /\ present = AllElements
    /\ toastr = FALSE
    /\ buttons = StandardButtons
    /\ panel = PanelClosed
    /\ body = {BodyTabsShadow, AppThemeWhite}
    /\ checked = [t \in Toggles |-> FALSE]
    /\ indicator = [t \in Toggles |-> IndicatorFor(FALSE)]
    /\ targetCls = [g \in SwatchGroups |-> {BaseClass(g)}]
    /\ savedClass = [g \in SwatchGroups |-> Empty]
    /\ swActive = [g \in SwatchGroups |-> PreMarked(g, savedClass[g])]
    /\ btnActive = {1, 3}
    /\ nSent = 0
    /\ nCompleted = 0
    /\ nToasts = 0
    /\ lastSent = <<>>
    /\ nClicks = 0
    /\ nRestores = 0
    /\ lastChosen = [g \in ChoiceGroups |-> 0]
    /\ lastClick = NoClick

\* the rendered menu before DOMContentLoaded
InitNav ==
    /\ \/ menu \in GeneratedMenus /\ currentPath \in NavPaths
       \/ menu = DashboardMenu /\ currentPath \in {ReportsHref, Slash}
    /\ linkActive \in {{}, Nodes}
    /\ liActive \in {{}, Nodes}
    /\ ulShow \in {{}, Submenus}
    /\ matched = {}
    /\ navPhase = "loading"
    /\ passes = 0
    /\ lastEntry = 0
    /\ priorMarks = <<linkActive, liActive, ulShow>>
    /\ ThemeIdle

NextNav ==
    \/ HighlightPass
    \/ \E i \in Nodes : MenuToggleClick(i)

SpecNav == InitNav /\ [][NextNav]_vars

\* a rendered menu that carries any marks before DOMContentLoaded
InitPrior ==
    /\ menu = NestedMenu
    /\ currentPath \in {Slash, <<"/", "a">>}
    /\ linkActive \in SUBSET Nodes
    /\ liActive \in SUBSET Nodes
    /\ ulShow \in SUBSET Submenus
    /\ matched = {}
    /\ navPhase = "loading"
    /\ passes = 0
    /\ lastEntry = 0
    /\ priorMarks = <<linkActive, liActive, ulShow>>
    /\ ThemeIdle

SpecPrior == InitPrior /\ [][NextNav]_vars

\* a rendered menu with absolute hrefs before DOMContentLoaded
InitAbsolute ==
    /\ menu = AbsoluteMenu
    /\ currentPath \in NavPaths
    /\ linkActive \in SUBSET Nodes
    /\ liActive \in {{}, Nodes}
    /\ ulShow = {}
    /\ matched = {}
    /\ navPhase = "loading"
    /\ passes = 0
    /\ lastEntry = 0
    /\ priorMarks = <<linkActive, liActive, ulShow>>
    /\ ThemeIdle

SpecAbsolute == InitAbsolute /\ [][NextNav]_vars

NextTheme ==
    \/ SettingsButtonClick
    \/ \E where \in {"page", "panel"} : DocumentClick(where)
    \/ \E t \in Toggles : ToggleClick(t)
    \/ \E g \in SwatchGroups : \E o \in Swatches(g) : SwatchClick(g, o)
    \/ \E b \in AllButtons : ButtonClick(b)
    \/ RestoreClick
    \/ \E outcome \in Outcomes : SaveCompletes(outcome)

SpecTheme == InitTheme /\ [][NextTheme]_vars

\* a page that lacks any of the elements the script looks up by id or class
\* (lines 76-77, 187, 237, 329), rendered with the default theme and without
\* window.THEME_CONFIG
InitMissing ==
    /\ present \in SUBSET AllElements
    /\ toastr = FALSE
    /\ buttons = StandardButtons
    /\ panel = PanelClosed
    /\ body = {BodyTabsShadow, AppThemeWhite}
    /\ checked = [t \in Toggles |-> ToggleClass[t] \in body]
    /\ indicator = [t \in Toggles |-> IndicatorFor(ToggleClass[t] \in body)]
    /\ targetCls = [g \in SwatchGroups |-> IF TargetOf(g) \in present THEN {BaseClass(g)} ELSE {}]
    /\ savedClass = [g \in SwatchGroups |-> Empty]
    /\ swActive = [g \in SwatchGroups |-> PreMarked(g, savedClass[g])]
    /\ btnActive = { b \in buttons : ButtonClass[b] \in body }
    /\ nSent = 0
    /\ nCompleted = 0
    /\ nToasts = 0
    /\ lastSent = <<>>
    /\ nClicks = 0
    /\ nRestores = 0
    /\ lastChosen = [g \in ChoiceGroups |-> 0]
    /\ lastClick = NoClick
    /\ NavIdle

SpecMissing == InitMissing /\ [][NextTheme]_vars

(***************************************************************************)
(* Claims about the highlight pass                                         *)
(***************************************************************************)
Highlighted == navPhase = "highlighted"

\* C1: after a highlight pass, for every menu tree of any depth, a navigable
\* entry that is marked active has every submenu that contains it expanded
\* and every ancestor list item and that item's link marked active.
C1_AncestorsMarked ==
    Highlighted =>
        \A i \in Nodes :
            (Navigable(menu.href[i]) /\ i \in linkActive) =>
                \A a \in Ancestors(i) :
                    a \in ulShow /\ a \in liActive /\ a \in linkActive

\* C2: for a flat menu the entries marked active after the pass are exactly
\* the navigable entries whose normalized href equals the path, or is not "/"
\* and is a string prefix of the path; for path /dashboard/reports and hrefs
\* ["/", "/dashboard", "/dashboard/reports", "/settings"] these are the
\* second and third entry.
FlatMenu == \A i \in Nodes : menu.parent[i] = 0

C2_FlatActiveSet ==
    (Highlighted /\ FlatMenu) =>
        /\ linkActive =
             { i \in Nodes :
                 /\ menu.href[i] \notin {Empty, Hash}
                 /\ \/ StripOrigin(menu.href[i]) = currentPath
                    \/ /\ StripOrigin(menu.href[i]) # Slash
                       /\ StartsWith(currentPath, StripOrigin(menu.href[i])) }
        /\ (menu = DashboardMenu /\ currentPath = ReportsHref) => linkActive = {2, 3}

C2_Witness ==
    /\ Highlighted
    /\ menu = DashboardMenu
    /\ currentPath = ReportsHref
    /\ linkActive = {2, 3}

\* C3: for every path other than "/", an entry whose href is "/" is not
\* matched by the pass; when it is marked active, it is as the parent link of
\* a matched entry.
C3_RootNotMatched ==
    (Highlighted /\ currentPath # Slash) =>
        \A i \in Nodes :
            menu.href[i] = Slash =>
                /\ i \notin matched
                /\ i \in linkActive => \E c \in matched : menu.parent[c] = i

C3_Witness ==
    /\ Highlighted
    /\ currentPath # Slash
    /\ \E i \in Nodes : menu.href[i] = Slash /\ i \in linkActive
    /\ \E i \in Nodes : menu.href[i] = Slash /\ i \notin linkActive

\* C4: a second highlight pass run right after a first one, on the same path
\* and menu, leaves the mm-active links and list items and the mm-show
\* submenus as the first pass left them.
C4_PassIdempotent ==
    [][ (Highlighted /\ passes' = passes + 1) =>
            /\ linkActive' = linkActive
            /\ liActive' = liActive
            /\ ulShow' = ulShow ]_vars

C4_Witness ==
    /\ Highlighted
    /\ passes = 2
    /\ linkActive # {}
    /\ ulShow # {}
    /\ Cardinality(liActive) > Cardinality(matched)

(***************************************************************************)
(* Claims about the theme panel                                            *)
(***************************************************************************)
\* the options of an exclusive-choice group that carry 'active'
ActiveIn(g) ==
    IF g \in SwatchGroups THEN swActive[g]
    ELSE { b \in btnActive : FamilyOf(b) = g }

\* C5: in each exclusive-choice group (header swatches, sidebar swatches,
\* tab-style buttons, theme-colour buttons), once an option of the group has
\* been clicked, exactly one option of the group carries 'active': the one
\* clicked last.
C5_OneActivePerGroup ==
    \A g \in ChoiceGroups :
        lastChosen[g] # 0 => ActiveIn(g) = {lastChosen[g]}

C5_Witness ==
    /\ nClicks = 2
    /\ lastChosen["header"] = 3
    /\ lastChosen["tabs"] = 5
    /\ lastChosen["sidebar"] = 0
    /\ lastChosen["theme"] = 0

\* the classes the options of a group name, and those on the group's target
OptionClasses(g, o) ==
    IF g \in SwatchGroups THEN SplitSet(SwatchClass(g)[o]) \ {Empty}
    ELSE {ButtonClass[o]}

RenderedOptions(g) ==
    IF g \in SwatchGroups THEN Swatches(g)
    ELSE { b \in buttons : FamilyOf(b) = g }

OnTarget(g) == IF g \in SwatchGroups THEN targetCls[g] ELSE body

\* C6: for every exclusive-choice group and every set of options rendered in
\* it, after clicking option o the group's target element carries, of the
\* classes of the group's options, exactly the classes of o (none for the
\* empty-value swatch).
C6_OnlyChosenClasses ==
    \A g \in ChoiceGroups :
        lastChosen[g] # 0 =>
            OnTarget(g) \cap UNION { OptionClasses(g, o) : o \in RenderedOptions(g) }
                = OptionClasses(g, lastChosen[g])

\* C7: every click on an exclusive-choice option or on a layout toggle issues
\* exactly one save request, with the group's setting name as key and the
\* option's value (the empty string for the restore-default swatch, "true" or
\* "false" for a toggle); with only such clicks the requests issued are as
\* many as the clicks, whatever became of earlier requests.
C7_OneRequestPerClick ==
    /\ nRestores = 0 => nSent = nClicks
    /\ lastClick.kind = "swatch" =>
          lastSent = << [setting |-> IF lastClick.group = "header" THEN HeaderClassKey ELSE SidebarClassKey,
                         value |-> SwatchClass(lastClick.group)[lastClick.option]] >>
    /\ lastClick.kind = "button" =>
          lastSent = << [setting |-> IF lastClick.group = "tabs" THEN PageTabsStyleKey ELSE ThemeColorKey,
                         value |-> ButtonClass[lastClick.option]] >>
    /\ lastClick.kind = "toggle" =>
          /\ Len(lastSent) = 1
          /\ lastSent[1].value = (IF checked[lastClick.option] THEN <<"true">> ELSE <<"false">>)

C7_Witness ==
    /\ nClicks = 2
    /\ nRestores = 0
    /\ nSent = 2
    /\ nCompleted = 1
    /\ lastClick.kind = "swatch"
    /\ lastClick.option = 1
    /\ lastSent[1].value = Empty

\* C8: the completion of a save request, whatever its outcome and wherever it
\* falls among the clicks, changes no view-state, issues no request, and
\* shows a notification only when the notifier is present.
C8_CompletionOnlyNotifies ==
    [][ nCompleted' = nCompleted + 1 =>
            /\ UNCHANGED viewVars
            /\ nSent' = nSent
            /\ lastSent' = lastSent
            /\ nToasts' # nToasts => toastr ]_vars

C8_Witness ==
    /\ nSent = 2
    /\ nCompleted = 1
    /\ nClicks = 2
    /\ nToasts = 0
    /\ ~toastr

\* C9: the panel is closed until the first click; a click on the settings
\* button flips it and is not handled as an outside click as well; a click
\* outside the panel and the button while it is open closes it and clears the
\* inline transform and right; while it is closed no click but one on the
\* settings button opens it; the inline overrides are set exactly when the
\* panel is open.
C9_PanelStateMachine ==
    /\ lastClick.kind = "none" => ~panel.open
    /\ lastClick.kind = "settings" => panel.open = ~lastClick.openBefore
    /\ (lastClick.kind = "page" /\ lastClick.openBefore) => panel = PanelClosed
    /\ (lastClick.kind # "settings" /\ ~lastClick.openBefore) => ~panel.open
    /\ panel.open => (panel.transform = "translate(0)" /\ panel.right = "0")
    /\ ~panel.open => (panel.transform = "" /\ panel.right = "")

C9_Witness ==
    /\ lastClick.kind = "page"
    /\ lastClick.openBefore
    /\ ~panel.open
    /\ nClicks = 2

\* C10: after a click on restore-defaults, whatever was selected before, the
\* body carries body-tabs-shadow and app-theme-white and neither
\* body-tabs-line nor app-theme-gray, the active marker of the tab-style
\* group and of the theme-colour group is on the default option only, and
\* the click issued exactly two requests: page_tabs_style = body-tabs-shadow
\* and theme_color = app-theme-white.
C10_RestoreDefaults ==
    lastClick.kind = "restore" =>
        /\ {BodyTabsShadow, AppThemeWhite} \subseteq body
        /\ BodyTabsLine \notin body
        /\ AppThemeGray \notin body
        /\ ActiveIn("tabs") = {1}
        /\ ActiveIn("theme") = {3}
        /\ lastSent = << [setting |-> PageTabsStyleKey, value |-> BodyTabsShadow],
                         [setting |-> ThemeColorKey, value |-> AppThemeWhite] >>
        /\ nSent = nClicks + 2 * nRestores

C10_Witness ==
    /\ lastClick.kind = "restore"
    /\ {BodyTabsLine, AppThemeGray} \subseteq lastClick.bodyBefore
    /\ nClicks = 1
    /\ nRestores = 1

\* C11: a click on restore-defaults leaves unchanged the active markers of
\* the header and sidebar swatches, the classes of the app header and the
\* app sidebar, every toggle's checked state, indicator and class on the
\* body, and the panel.
C11_RestoreFrame ==
    [][ nRestores' = nRestores + 1 =>
            /\ swActive' = swActive
            /\ targetCls' = targetCls
            /\ checked' = checked
            /\ indicator' = indicator
            /\ \A t \in Toggles : (ToggleClass[t] \in body') = (ToggleClass[t] \in body)
            /\ panel' = panel ]_vars

C11_Witness ==
    /\ lastClick.kind = "restore"
    /\ panel.open
    /\ ToggleClass[1] \in body
    /\ checked[1]
    /\ swActive["header"] = {2}
    /\ targetCls["header"] # {BaseClass("header")}

SavingKinds == {"toggle", "swatch", "button", "restore"}

C13_MissingElementsHarmless ==
    lastClick.kind = "swatch" =>
        /\ ~lastClick.threw
        /\ swActive[lastClick.group] = {lastClick.option}
        /\ lastSent = <<Request(SettingOf(lastClick.group),
                                SwatchClass(lastClick.group)[lastClick.option])>>

\* C14: for every layout toggle the checkbox is checked exactly when the
\* indicator shows switch-on and not switch-off, and exactly when the body
\* carries the toggle's class; a click on a toggle flips the three, and the
\* value of its request is the new state as "true" or "false".
C14_ToggleAgreement ==
    /\ \A t \in Toggles :
          /\ checked[t] = (ToggleClass[t] \in body)
          /\ checked[t] = ("switch-on" \in indicator[t])
          /\ checked[t] = ("switch-off" \notin indicator[t])
    /\ lastClick.kind = "toggle" =>
          LET t == lastClick.option
          IN  /\ checked[t] = (ToggleClass[t] \notin lastClick.bodyBefore)
              /\ Len(lastSent) = 1
              /\ lastSent[1].value = (IF checked[t] THEN <<"true">> ELSE <<"false">>)

C14_Witness ==
    /\ lastClick.kind = "toggle"
    /\ lastClick.option = 1
    /\ nClicks = 2
    /\ ToggleClass[1] \in lastClick.bodyBefore
    /\ ~checked[1]
    /\ indicator[1] = {"switch-off"}
    /\ ToggleClass[1] \notin body
    /\ lastSent[1].value = <<"false">>

\* C16: whatever mm-active and mm-show marks the rendered menu carried
\* before a highlight pass, after the pass a submenu is expanded only if it
\* contains a matched entry, and a link or list item is active only if it is
\* a matched entry or an ancestor of one.
C16_PriorMarksIrrelevant ==
    Highlighted =>
        /\ \A s \in ulShow : \E e \in MatchedEntries : s \in Ancestors(e)
        /\ \A x \in linkActive \cup liActive :
              x \in MatchedEntries \/ \E e \in MatchedEntries : x \in Ancestors(e)

\* the pass has run on a menu whose unmatched entries were all marked
C16_Witness ==
    /\ Highlighted
    /\ priorMarks = <<Nodes, Nodes, Submenus>>
    /\ MatchedEntries = {3}
    /\ linkActive = {2, 3}
    /\ ulShow = {2}

\* the path an absolute URL names: what follows scheme and host, "/" when
\* nothing does
PathOfUrl(h) == IF Len(h) > Len(Origin) THEN SubSeq(h, Len(Origin) + 1, Len(h)) ELSE Slash
IsAbsolute(h) == StartsWith(h, Origin)

\* C17: an entry whose href is an absolute URL of the site root, with or
\* without a trailing slash, is matched only when the current path is "/";
\* an entry whose href is scheme+host+/foo is matched for exactly the paths
\* for which the relative href /foo is matched.
C17_NormalizationKeepsRootExemption ==
    Highlighted =>
        \A i \in Nodes :
            IsAbsolute(menu.href[i]) =>
                IF PathOfUrl(menu.href[i]) = Slash
                THEN (i \in matched) = (currentPath = Slash)
                ELSE (i \in matched) = Matches(PathOfUrl(menu.href[i]), currentPath)

(***************************************************************************)
(* Claims about the menu toggles                                           *)
(***************************************************************************)
\* C15: a click on a top-level href="#" entry that is not marked active
\* collapses every other expanded top-level submenu and un-marks that
\* submenu's list item and link, and leaves the entry's own submenu and
\* every nested submenu as they were; a click on such an entry that is
\* marked active changes no mark.
C15_TopLevelAccordion ==
    [][ navPhase' = "clicked" =>
            LET i == lastEntry'
                others == TopLevel \ {i}
            IN  IF i \in linkActive
                THEN UNCHANGED <<linkActive, liActive, ulShow>>
                ELSE /\ \A s \in others :
                          /\ s \notin ulShow'
                          /\ s \in ulShow => (s \notin linkActive' /\ s \notin liActive')
                     /\ \A s \in Nodes \ others : (s \in ulShow') = (s \in ulShow) ]_vars

\* an inactive toggle entry was clicked while another top-level submenu was
\* expanded by the pass, and a nested submenu stayed expanded
C15_Witness ==
    /\ navPhase = "clicked"
    /\ lastEntry \notin linkActive
    /\ \E s \in TopLevel \cap WalkUp(matched) :
          s # lastEntry /\ s \notin ulShow /\ s \notin linkActive /\ s \notin liActive

\* C18: on load, before any click, each of the header and sidebar groups has
\* at most one swatch marked active: the swatch whose data-class equals the
\* injected saved class, or the empty swatch when no saved class is
\* injected; a swatch whose data-class differs from the saved class is not
\* marked.
C18_PreMarkedSwatch ==
    lastClick = NoClick =>
        \A g \in SwatchGroups :
            /\ Cardinality(swActive[g]) <= 1
            /\ \A i \in Swatches(g) :
                  (i \in swActive[g]) = (SwatchClass(g)[i] = savedClass[g])
            /\ savedClass[g] = Empty => swActive[g] = {1}

C18_Witness ==
    /\ lastClick = NoClick
    /\ savedClass["header"] = SwatchClass("header")[2]
    /\ swActive["header"] = {2}
    /\ swActive["sidebar"] = {2}

\* the class name with every hyphen replaced by an underscore
SnakeCase(s) == [k \in 1..Len(s) |-> IF s[k] = "-" THEN "_" ELSE s[k]]

\* C19: the setting a toggle click sends is its target class with every
\* hyphen replaced by an underscore, for classes with two or more hyphens
\* as for the others.
C19_ToggleKeyIsSnakeCase ==
    lastClick.kind = "toggle" =>
        /\ Len(lastSent) = 1
        /\ lastSent[1].setting = SnakeCase(ToggleClass[lastClick.option])

====
